---- MODULE Spec2Model ----
(***************************************************************************)
(* Model of agent.py: the module-level Langfuse client, the two pipeline   *)
(* functions research_and_write and quick_research, test_langfuse and the  *)
(* interactive loop of main.                                               *)
(*                                                                         *)
(* The program is single threaded; every statement that calls out of the   *)
(* module (input, crew.kickoff, each call on the Langfuse client or on a   *)
(* span) is one step.  A call on the tracing client either has its effect  *)
(* or raises; crew.kickoff either returns a result or raises.              *)
(*                                                                         *)
(* Texts are sequences of one-character strings.  An optional value is a   *)
(* sequence of length 0 (None / unset) or 1.                               *)
(***************************************************************************)
EXTENDS Integers, Sequences, FiniteSets, TLC

VARIABLES
    langfuse_enabled,   \* module global, line 18
    langfuse,           \* module global, line 19: "None" or "Langfuse"
    mainPc,             \* position of main (and of the module body before it)
    choice,             \* main: the menu choice read last
    topic,              \* main / research_and_write
    content_type,       \* main / research_and_write
    question,           \* main / quick_research
    out,                \* the last outcome message main or test_langfuse printed
    fn,                 \* the function main is calling, "none" outside a call
    pc,                 \* position inside fn
    clock,              \* time.time(), in milliseconds since the menu prompt
    start_time,         \* local start_time
    input_data,         \* local input_data (optional)
    result,             \* local result (optional)
    result_str,         \* local result_str (optional)
    duration,           \* local duration (optional)
    e,                  \* the exception in flight or bound by `except ... as e`
    spans,              \* the spans the tracing backend received in this call
    trace,              \* the calls made to the backend and to crew.kickoff
    ret                 \* how the call ended: returned value or raised exception

vars == << langfuse_enabled, langfuse, mainPc, choice, topic, content_type,
           question, out, fn, pc, clock, start_time, input_data, result,
           result_str, duration, e, spans, trace, ret >>

----------------------------------------------------------------------------
(* Bounds *)

MaxChoiceLen == 2      \* longest line typed at the menu prompt
MaxTextLen == 2        \* longest line typed at a topic / type / question prompt
MaxOver == 1           \* result texts reach TextCap + MaxOver characters
MaxKickoffMs == 1      \* crew.kickoff takes 0..MaxKickoffMs milliseconds

(* Program constants *)

TextCap == 800         \* result_str[:800]
NameCap == 20          \* topic[:20]
SleepWriteMs == 2000   \* time.sleep(2)
SleepQuickMs == 1000   \* time.sleep(1)
SleepTestMs == 500     \* time.sleep(0.5)

----------------------------------------------------------------------------
(* Values *)

None == <<>>
Some(v) == << v >>

Min(a, b) == IF a < b THEN a ELSE b

Space == " "
ChoiceChars == {Space, "0", "1", "2", "3", "x"}
TextChars == {Space, "a"}

SeqsUpTo(S, n) == UNION { [1..k -> S] : k \in 0..n }

ChoiceInputs == SeqsUpTo(ChoiceChars, MaxChoiceLen)
TextInputs == SeqsUpTo(TextChars, MaxTextLen)

Article == << "a", "r", "t", "i", "c", "l", "e" >>

(* The text of a result of n characters; the character depends on the      *)
(* position, so that a shifted or shortened copy differs from a prefix.     *)
ResultText(n) == [ i \in 1..n |-> IF i % 3 = 1 THEN "a"
                                  ELSE IF i % 3 = 2 THEN "b" ELSE "c" ]

ResultLens == {0, 1, TextCap - 1, TextCap} \cup (TextCap + 1 .. TextCap + MaxOver)

(* What crew.kickoff() can return: a CrewOutput object holding its raw text *)
KickoffResults == { [raw |-> ResultText(n)] : n \in ResultLens }

(* What crew.kickoff() can raise *)
KickoffErrors == { [type |-> "OrchestrationError", msg |-> m] :
                       m \in {"rate limit", "timeout"} }

(* What a call on the tracing client can raise *)
TracingError(site) == [type |-> "TracingBackendError", msg |-> site]

----------------------------------------------------------------------------
(* Pure helpers *)

(* str(result) *)
Str(r) == r.raw

(* s[:n] *)
SliceWhole(s, n) == s
Slice(s, n) == SubSeq(s, 1, Min(n, Len(s)))

(* s.strip() *)
RECURSIVE LStrip(_)
LStrip(s) == IF s # << >> /\ Head(s) = Space THEN LStrip(Tail(s)) ELSE s

RECURSIVE RStrip(_)
RStrip(s) == IF s # << >> /\ s[Len(s)] = Space
             THEN RStrip(SubSeq(s, 1, Len(s) - 1)) ELSE s

Strip(s) == RStrip(LStrip(s))

(* `not s` for a string s *)
NotNever(s) == FALSE
Not(s) == Len(s) = 0

(* `s or d` for strings *)
Or(s, d) == IF Len(s) = 0 THEN d ELSE s

(* `if langfuse:` *)
TracingOnAlways == TRUE
TracingOn == langfuse # "None"

Pipelines == {"research_and_write", "quick_research"}

(* time.sleep(...) at the head of each try block *)
SleepMs(f) == IF f = "research_and_write" THEN SleepWriteMs
              ELSE IF f = "quick_research" THEN SleepQuickMs
              ELSE SleepTestMs

(* input_data; the timestamp strings are not modelled *)
InputData(f) ==
    IF f = "research_and_write"
    THEN [topic |-> topic, content_type |-> content_type]
    ELSE [question |-> question]

SpanName(f) == << f >>

SuccessOutput(f, rs) ==
    IF f = "research_and_write"
    THEN [content |-> Slice(rs, TextCap), length |-> Len(rs), status |-> "success"]
    ELSE [answer |-> Slice(rs, TextCap), length |-> Len(rs)]

SuccessMetadata(f, d) ==
    IF f = "research_and_write"
    THEN [topic |-> topic, content_type |-> content_type,
          execution_time_seconds |-> d]
    ELSE [question |-> question, execution_time_seconds |-> d]

ErrorSpanName(f) ==
    IF f = "research_and_write"
    THEN << "error_" >> \o Slice(topic, NameCap)
    ELSE << "error_research" >>

ErrorOutput(f, ex) ==
    IF f = "research_and_write"
    THEN [error |-> ex.msg, status |-> "failed"]
    ELSE [error |-> ex.msg]

ErrorMetadata(f, d) ==
    IF f = "research_and_write"
    THEN [topic |-> topic, execution_time_seconds |-> d]
    ELSE [execution_time_seconds |-> d]

----------------------------------------------------------------------------
(* The tracing backend, as the program sees it *)

Entry(c, okay) == [call |-> c, ok |-> okay]

NewSpan(name, input) ==
    [name |-> name, input |-> input, output |-> None, metadata |-> None,
     updates |-> 0, ended |-> FALSE]

(* start_as_current_observation(...).__enter__() *)
OpenSpan(name, input) ==
    /\ spans' = Append(spans, NewSpan(name, input))
    /\ trace' = Append(trace, Entry("open", TRUE))

(* span.update(output=..., metadata=...) on the span opened last *)
UpdateSpan(output, metadata) ==
    /\ spans' = [spans EXCEPT ![Len(spans)] =
                    [@ EXCEPT !.output = Some(output),
                              !.metadata = Some(metadata),
                              !.updates = @ + 1]]
    /\ trace' = Append(trace, Entry("update", TRUE))

(* __exit__ of the with block: the span opened last is ended *)
CloseSpan ==
    /\ spans' = [spans EXCEPT ![Len(spans)] = [@ EXCEPT !.ended = TRUE]]
    /\ trace' = Append(trace, Entry("close", TRUE))

(* langfuse.flush() *)
Flush ==
    /\ trace' = Append(trace, Entry("flush", TRUE))
    /\ UNCHANGED spans

(* any of the four calls raising: the backend is left as it was *)
Fails(c) ==
    /\ trace' = Append(trace, Entry(c, FALSE))
    /\ UNCHANGED spans

----------------------------------------------------------------------------
(* Initial state: the interpreter is about to run the module body.          *)

Init ==
    /\ langfuse_enabled \in BOOLEAN
    /\ langfuse = "None"
    /\ mainPc = "load"
    /\ choice = None
    /\ topic = None
    /\ content_type = None
    /\ question = None
    /\ out = "banner"
    /\ fn = "none"
    /\ pc = "idle"
    /\ clock = 0
    /\ start_time = 0
    /\ input_data = None
    /\ result = None
    /\ result_str = None
    /\ duration = None
    /\ e = None
    /\ spans = << >>
    /\ trace = << >>
    /\ ret = [kind |-> "none", val |-> None, exc |-> None]

mainVars == << mainPc, choice, topic, content_type, question, out, fn >>
globals == << langfuse_enabled, langfuse >>
locals == << start_time, input_data, result, result_str, duration, e >>
backend == << spans, trace >>

(* Module body: the Langfuse client is constructed when LANGFUSE_ENABLED    *)
(* is "true"; a constructor that raises leaves langfuse None.               *)
LoadModule ==
    /\ mainPc = "load"
    /\ \/ /\ langfuse_enabled
          /\ \/ /\ langfuse' = "Langfuse"
                /\ UNCHANGED langfuse_enabled
             \/ /\ langfuse_enabled' = FALSE
                /\ UNCHANGED langfuse
       \/ /\ ~langfuse_enabled
          /\ UNCHANGED globals
    /\ mainPc' = "menu"
    /\ UNCHANGED << choice, topic, content_type, question, out, fn, pc, clock,
                    ret >>
    /\ UNCHANGED locals
    /\ UNCHANGED backend

(* The else branch (langfuse is None): result = crew.kickoff(); return      *)
(* result -- or the handler, which skips the error span and raises again.   *)
(* k is what crew.kickoff() did, as recorded in trace.                      *)
PlainOutcome(k) ==
    IF k.ok
    THEN [kind |-> "return", val |-> k.val, exc |-> None]
    ELSE [kind |-> "raise", val |-> None, exc |-> k.exc]

caller == << langfuse_enabled, langfuse, mainPc, choice, topic, content_type,
             question, fn >>

NoRet == [kind |-> "none", val |-> None, exc |-> None]

----------------------------------------------------------------------------
(* research_and_write and quick_research.  The two functions have the same  *)
(* control flow and differ in the span names and payloads, which the        *)
(* operators above select by fn.                                            *)

(* start_time, input_data, the agents, tasks and crew, then the head of    *)
(* the try block: time.sleep and the test `if langfuse:`                    *)
Enter ==
    /\ fn \in Pipelines
    /\ pc = "entry"
    /\ start_time' = clock
    /\ input_data' = Some(InputData(fn))
    /\ clock' = clock + SleepMs(fn)
    /\ pc' = IF TracingOn THEN "open" ELSE "kickoff_plain"
    /\ UNCHANGED << caller, out, result, result_str, duration, e, ret >>
    /\ UNCHANGED backend

(* with langfuse.start_as_current_observation(...) as span: *)
TracedOpen ==
    /\ fn \in Pipelines
    /\ pc = "open"
    /\ \/ /\ OpenSpan(SpanName(fn), input_data[1])
          /\ pc' = "kickoff"
          /\ UNCHANGED e
       \/ /\ Fails("open")
          /\ e' = Some(TracingError("open"))
          /\ pc' = "except"
    /\ UNCHANGED << caller, out, clock, start_time, input_data, result,
                    result_str, duration, ret >>

(* result = crew.kickoff(); result_str = str(result), inside the with      *)
(* block (pc = "kickoff") or in the else branch (pc = "kickoff_plain")      *)
Kickoff ==
    /\ fn \in Pipelines
    /\ pc \in {"kickoff", "kickoff_plain"}
    /\ \E d \in 0..MaxKickoffMs : clock' = clock + d
    /\ \/ \E r \in KickoffResults :
            /\ result' = Some(r)
            /\ result_str' = Some(Str(r))
            /\ trace' = Append(trace, [call |-> "kickoff", ok |-> TRUE,
                                       val |-> Some(r), exc |-> None])
            /\ pc' = IF pc = "kickoff" THEN "update" ELSE "return"
            /\ UNCHANGED e
       \/ \E x \in KickoffErrors :
            /\ e' = Some(x)
            /\ trace' = Append(trace, [call |-> "kickoff", ok |-> FALSE,
                                       val |-> None, exc |-> Some(x)])
            /\ pc' = IF pc = "kickoff" THEN "exit_exc" ELSE "except"
            /\ UNCHANGED << result, result_str >>
    /\ UNCHANGED << caller, out, start_time, input_data, duration, spans, ret >>

(* duration = time.time() - start_time; span.update(output, metadata) *)
TracedUpdate ==
    /\ fn \in Pipelines
    /\ pc = "update"
    /\ duration' = Some(clock - start_time)
    /\ \/ /\ UpdateSpan(SuccessOutput(fn, result_str[1]),
                        SuccessMetadata(fn, clock - start_time))
          /\ pc' = "exit"
          /\ UNCHANGED e
       \/ /\ Fails("update")
          /\ e' = Some(TracingError("update"))
          /\ pc' = "exit_exc"
    /\ UNCHANGED << caller, out, clock, start_time, input_data, result,
                    result_str, ret >>

(* the with block is left normally: __exit__(None, None, None) *)
TracedExit ==
    /\ fn \in Pipelines
    /\ pc = "exit"
    /\ \/ /\ CloseSpan
          /\ pc' = "flush"
          /\ UNCHANGED e
       \/ /\ Fails("close")
          /\ e' = Some(TracingError("close"))
          /\ pc' = "except"
    /\ UNCHANGED << caller, out, clock, start_time, input_data, result,
                    result_str, duration, ret >>

(* the with block is left by an exception: __exit__(type, value, tb); an   *)
(* exception raised by __exit__ replaces the one in flight                  *)
TracedExitExc ==
    /\ fn \in Pipelines
    /\ pc = "exit_exc"
    /\ \/ /\ CloseSpan
          /\ UNCHANGED e
       \/ /\ Fails("close")
          /\ e' = Some(TracingError("close"))
    /\ pc' = "except"
    /\ UNCHANGED << caller, out, clock, start_time, input_data, result,
                    result_str, duration, ret >>

(* langfuse.flush() after the with block *)
TracedFlush ==
    /\ fn \in Pipelines
    /\ pc = "flush"
    /\ \/ /\ Flush
          /\ pc' = "return"
          /\ UNCHANGED e
       \/ /\ Fails("flush")
          /\ e' = Some(TracingError("flush"))
          /\ pc' = "except"
    /\ UNCHANGED << caller, out, clock, start_time, input_data, result,
                    result_str, duration, ret >>

(* return result *)
Return ==
    /\ fn \in Pipelines
    /\ pc = "return"
    /\ ret' = [kind |-> "return", val |-> result, exc |-> None]
    /\ pc' = "returned"
    /\ UNCHANGED << caller, out, clock >>
    /\ UNCHANGED locals
    /\ UNCHANGED backend

(* except Exception as e: ... if langfuse: *)
Except ==
    /\ fn \in Pipelines
    /\ pc = "except"
    /\ pc' = IF TracingOn THEN "err_open" ELSE "reraise"
    /\ UNCHANGED << caller, out, clock, ret >>
    /\ UNCHANGED locals
    /\ UNCHANGED backend

(* inner try: duration = ...; with langfuse.start_as_current_observation(  *)
(* name=error_..., input=input_data) as span:                               *)
ErrOpen ==
    /\ fn \in Pipelines
    /\ pc = "err_open"
    /\ duration' = Some(clock - start_time)
    /\ \/ /\ OpenSpan(ErrorSpanName(fn), input_data[1])
          /\ pc' = "err_update"
       \/ /\ Fails("open")
          /\ pc' = "reraise"
    /\ UNCHANGED << caller, out, clock, start_time, input_data, result,
                    result_str, e, ret >>

(* span.update(output={"error": str(e), ...}, metadata={...}) *)
ErrUpdate ==
    /\ fn \in Pipelines
    /\ pc = "err_update"
    /\ \/ /\ UpdateSpan(ErrorOutput(fn, e[1]), ErrorMetadata(fn, duration[1]))
          /\ pc' = "err_exit"
       \/ /\ Fails("update")
          /\ pc' = "err_exit_exc"
    /\ UNCHANGED << caller, out, clock, ret >>
    /\ UNCHANGED locals

(* the error span's with block is left normally *)
ErrExit ==
    /\ fn \in Pipelines
    /\ pc = "err_exit"
    /\ \/ /\ CloseSpan
          /\ pc' = "err_flush"
       \/ /\ Fails("close")
          /\ pc' = "reraise"
    /\ UNCHANGED << caller, out, clock, ret >>
    /\ UNCHANGED locals

(* the error span's with block is left by the exception of span.update;    *)
(* whatever __exit__ does, `except: pass` discards the exception            *)
ErrExitExc ==
    /\ fn \in Pipelines
    /\ pc = "err_exit_exc"
    /\ \/ CloseSpan
       \/ Fails("close")
    /\ pc' = "reraise"
    /\ UNCHANGED << caller, out, clock, ret >>
    /\ UNCHANGED locals

(* langfuse.flush() in the handler; `except: pass` *)
ErrFlush ==
    /\ fn \in Pipelines
    /\ pc = "err_flush"
    /\ \/ Flush
       \/ Fails("flush")
    /\ pc' = "reraise"
    /\ UNCHANGED << caller, out, clock, ret >>
    /\ UNCHANGED locals

(* raise: the exception bound by the handler is raised again *)
Reraise ==
    /\ fn \in Pipelines
    /\ pc = "reraise"
    /\ ret' = [kind |-> "raise", val |-> None, exc |-> e]
    /\ pc' = "raised"
    /\ UNCHANGED << caller, out, clock >>
    /\ UNCHANGED locals
    /\ UNCHANGED backend

----------------------------------------------------------------------------
(* test_langfuse *)

TestFailed ==
    /\ out' = "Test failed"
    /\ ret' = [kind |-> "return", val |-> None, exc |-> None]
    /\ pc' = "returned"

(* if not langfuse: print; return -- else start_time = time.time() *)
TestEnter ==
    /\ fn = "test_langfuse"
    /\ pc = "entry"
    /\ IF TracingOn
       THEN /\ start_time' = clock
            /\ pc' = "t_open"
            /\ UNCHANGED << out, ret >>
       ELSE /\ out' = "Langfuse not enabled"
            /\ ret' = [kind |-> "return", val |-> None, exc |-> None]
            /\ pc' = "returned"
            /\ UNCHANGED start_time
    /\ UNCHANGED << caller, clock, input_data, result, result_str, duration, e >>
    /\ UNCHANGED backend

(* with langfuse.start_as_current_observation(name="connection_test", ...) *)
(* as span: time.sleep(0.5)                                                 *)
TestOpen ==
    /\ fn = "test_langfuse"
    /\ pc = "t_open"
    /\ \/ /\ OpenSpan(<< "connection_test" >>, [test |-> "Connection check"])
          /\ clock' = clock + SleepMs(fn)
          /\ pc' = "t_update"
          /\ UNCHANGED << out, ret >>
       \/ /\ Fails("open")
          /\ TestFailed
          /\ UNCHANGED clock
    /\ UNCHANGED caller
    /\ UNCHANGED locals

(* duration = time.time() - start_time; span.update(...) *)
TestUpdate ==
    /\ fn = "test_langfuse"
    /\ pc = "t_update"
    /\ duration' = Some(clock - start_time)
    /\ \/ /\ UpdateSpan([status |-> "success", message |-> "Connection OK"],
                        [test |-> TRUE,
                         execution_time_seconds |-> clock - start_time])
          /\ pc' = "t_exit"
       \/ /\ Fails("update")
          /\ pc' = "t_exit_exc"
    /\ UNCHANGED << caller, out, clock, start_time, input_data, result,
                    result_str, e, ret >>

(* the with block is left normally *)
TestExit ==
    /\ fn = "test_langfuse"
    /\ pc = "t_exit"
    /\ \/ /\ CloseSpan
          /\ pc' = "t_flush"
          /\ UNCHANGED << out, ret >>
       \/ /\ Fails("close")
          /\ TestFailed
    /\ UNCHANGED << caller, clock >>
    /\ UNCHANGED locals

(* the with block is left by the exception of span.update; the handler     *)
(* prints the failure                                                       *)
TestExitExc ==
    /\ fn = "test_langfuse"
    /\ pc = "t_exit_exc"
    /\ \/ CloseSpan
       \/ Fails("close")
    /\ TestFailed
    /\ UNCHANGED << caller, clock >>
    /\ UNCHANGED locals

(* langfuse.flush(); print success -- or the handler prints the failure *)
TestFlush ==
    /\ fn = "test_langfuse"
    /\ pc = "t_flush"
    /\ \/ /\ Flush
          /\ out' = "Langfuse connection successful"
          /\ ret' = [kind |-> "return", val |-> None, exc |-> None]
          /\ pc' = "returned"
       \/ /\ Fails("flush")
          /\ TestFailed
    /\ UNCHANGED << caller, clock >>
    /\ UNCHANGED locals

----------------------------------------------------------------------------
(* main *)

idleCall == << pc, clock, ret >>

(* choice = input().strip() and the dispatch on it *)
Prompt ==
    /\ mainPc = "menu"
    /\ \E raw \in ChoiceInputs :
         /\ choice' = Strip(raw)
         /\ IF choice' = << "0" >>
            THEN /\ out' = "Goodbye"
                 /\ mainPc' = IF TracingOn THEN "exit_flush" ELSE "exited"
                 /\ UNCHANGED << fn, pc >>
            ELSE IF choice' = << "1" >>
            THEN /\ mainPc' = "topic"
                 /\ UNCHANGED << out, fn, pc >>
            ELSE IF choice' = << "2" >>
            THEN /\ mainPc' = "question"
                 /\ UNCHANGED << out, fn, pc >>
            ELSE IF choice' = << "3" >>
            THEN /\ mainPc' = "call"
                 /\ fn' = "test_langfuse"
                 /\ pc' = "entry"
                 /\ UNCHANGED out
            ELSE /\ out' = "Invalid"
                 /\ UNCHANGED << mainPc, fn, pc >>
    /\ UNCHANGED << globals, topic, content_type, question, clock, ret >>
    /\ UNCHANGED locals
    /\ UNCHANGED backend

(* choice "0": langfuse.flush() before break; a flush that raises ends     *)
(* main with that exception                                                 *)
ExitFlush ==
    /\ mainPc = "exit_flush"
    /\ \/ /\ Flush
          /\ UNCHANGED out
       \/ /\ Fails("flush")
          /\ out' = "Traceback"
    /\ mainPc' = "exited"
    /\ UNCHANGED << globals, choice, topic, content_type, question, fn >>
    /\ UNCHANGED idleCall
    /\ UNCHANGED locals

(* topic = input().strip(); if not topic: continue *)
ReadTopic ==
    /\ mainPc = "topic"
    /\ \E raw \in TextInputs :
         /\ topic' = Strip(raw)
         /\ IF Not(topic')
            THEN /\ out' = "Topic required"
                 /\ mainPc' = "menu"
            ELSE /\ mainPc' = "ctype"
                 /\ UNCHANGED out
    /\ UNCHANGED << globals, choice, content_type, question, fn >>
    /\ UNCHANGED idleCall
    /\ UNCHANGED locals
    /\ UNCHANGED backend

(* content_type = input().strip() or "article"; research_and_write(...) *)
ReadContentType ==
    /\ mainPc = "ctype"
    /\ \E raw \in TextInputs : content_type' = Or(Strip(raw), Article)
    /\ mainPc' = "call"
    /\ fn' = "research_and_write"
    /\ pc' = "entry"
    /\ UNCHANGED << globals, choice, topic, question, out, clock, ret >>
    /\ UNCHANGED locals
    /\ UNCHANGED backend

(* question = input().strip(); if not question: continue; quick_research() *)
ReadQuestion ==
    /\ mainPc = "question"
    /\ \E raw \in TextInputs :
         /\ question' = Strip(raw)
         /\ IF Not(question')
            THEN /\ out' = "Question required"
                 /\ mainPc' = "menu"
                 /\ UNCHANGED << fn, pc >>
            ELSE /\ mainPc' = "call"
                 /\ fn' = "quick_research"
                 /\ pc' = "entry"
                 /\ UNCHANGED out
    /\ UNCHANGED << globals, choice, topic, content_type, clock, ret >>
    /\ UNCHANGED locals
    /\ UNCHANGED backend

(* the call returns to main: the result is printed, or the exception is    *)
(* caught by `except Exception` and reported; the loop goes on.  The        *)
(* callee's locals and main's per-iteration variables are dropped.          *)
AfterCall ==
    /\ mainPc = "call"
    /\ pc \in {"returned", "raised"}
    /\ out' = IF ret.kind = "raise" THEN "Failed"
              ELSE IF fn = "research_and_write" THEN "RESULT"
              ELSE IF fn = "quick_research" THEN "ANSWER"
              ELSE out
    /\ mainPc' = "menu"
    /\ fn' = "none"
    /\ pc' = "idle"
    /\ clock' = 0
    /\ start_time' = 0
    /\ input_data' = None
    /\ result' = None
    /\ result_str' = None
    /\ duration' = None
    /\ e' = None
    /\ spans' = << >>
    /\ trace' = << >>
    /\ ret' = NoRet
    /\ topic' = None
    /\ content_type' = None
    /\ question' = None
    /\ UNCHANGED << globals, choice >>

----------------------------------------------------------------------------

Next ==
    \/ LoadModule
    \/ Prompt
    \/ ExitFlush
    \/ ReadTopic
    \/ ReadContentType
    \/ ReadQuestion
    \/ AfterCall
    \/ Enter
    \/ TracedOpen
    \/ Kickoff
    \/ TracedUpdate
    \/ TracedExit
    \/ TracedExitExc
    \/ TracedFlush
    \/ Return
    \/ Except
    \/ ErrOpen
    \/ ErrUpdate
    \/ ErrExit
    \/ ErrExitExc
    \/ ErrFlush
    \/ Reraise
    \/ TestEnter
    \/ TestOpen
    \/ TestUpdate
    \/ TestExit
    \/ TestExitExc
    \/ TestFlush

Spec == Init /\ [][Next]_vars

----------------------------------------------------------------------------
(* Observations on one call of research_and_write or quick_research *)

Idx(c) == { i \in DOMAIN trace : trace[i].call = c }

(* the call of a pipeline function has ended *)
Done == fn \in Pipelines /\ pc \in {"returned", "raised"}

(* no call on the tracing client raised during this call *)
NoTracingFault == \A i \in DOMAIN trace : trace[i].call = "kickoff" \/ trace[i].ok

KickoffReturned == \E i \in Idx("kickoff") : trace[i].ok
KickoffRaised == \E i \in Idx("kickoff") : ~trace[i].ok

ContextKey == IF fn = "research_and_write" THEN "topic" ELSE "question"
TextKey == IF fn = "research_and_write" THEN "content" ELSE "answer"

----------------------------------------------------------------------------
(* C1: with a tracing client configured, a call of research_and_write or   *)
(* quick_research ends with exactly one span on the backend, and that span *)
(* received exactly one update and was closed, whether crew.kickoff()      *)
(* returned or raised.  Stated for the calls in which no tracing call      *)
(* raised.                                                                  *)
C1_OneSpanOneUpdate ==
    (Done /\ langfuse # "None" /\ NoTracingFault) =>
        /\ Len(spans) = 1
        /\ spans[1].updates = 1
        /\ spans[1].ended
        /\ Cardinality(Idx("update")) = 1

(* C2: with tracing enabled, when crew.kickoff() returned a result the     *)
(* call returns that result to its caller, whatever the tracing calls do.  *)
C2_TracingFaultsKeepResult ==
    (Done /\ langfuse # "None" /\ KickoffReturned) =>
        \A i \in Idx("kickoff") :
            ret = [kind |-> "return", val |-> trace[i].val, exc |-> None]

(* C3: when crew.kickoff() raised, the exception the caller observes is    *)
(* the exception kickoff raised.                                            *)
C3_OriginalExceptionObserved ==
    (Done /\ KickoffRaised) =>
        \A i \in Idx("kickoff") : ret.kind = "raise" /\ ret.exc = trace[i].exc

(* C4: with tracing enabled, the span that records a failing call carries  *)
(* the output {error: message, status: "failed"} and metadata holding the  *)
(* elapsed duration and the request context (topic or question).  Stated   *)
(* for the calls in which no tracing call raised.                           *)
C4_FailureShape ==
    (Done /\ langfuse # "None" /\ KickoffRaised /\ NoTracingFault) =>
        /\ Len(spans) >= 1
        /\ LET s == spans[Len(spans)] IN
             /\ Len(s.output) = 1
             /\ Len(s.metadata) = 1
             /\ {"error", "status"} \subseteq DOMAIN s.output[1]
             /\ \A i \in Idx("kickoff") : s.output[1].error = trace[i].exc[1].msg
             /\ s.output[1].status = "failed"
             /\ {"execution_time_seconds", ContextKey} \subseteq DOMAIN s.metadata[1]

(* C5: for the same behaviour of crew.kickoff(), a call with tracing       *)
(* enabled gives its caller the outcome the call with tracing disabled     *)
(* gives: the same returned value or the same raised exception.            *)
C5_SameOutcomeAsUntraced ==
    (Done /\ langfuse # "None" /\ Idx("kickoff") # {}) =>
        \A i \in Idx("kickoff") : ret = PlainOutcome(trace[i])

(* C6: on both exits the span of a call is created before crew.kickoff(),  *)
(* updated exactly once after kickoff and before it is closed, and closed  *)
(* and flushed before the call ends.  Stated for the calls in which no     *)
(* tracing call raised.                                                     *)
C6_SpanLifecycle ==
    (Done /\ langfuse # "None" /\ NoTracingFault) =>
        \E o \in Idx("open"), k \in Idx("kickoff"), u \in Idx("update"),
           c \in Idx("close"), f \in Idx("flush") :
            /\ o < k /\ k < u /\ u < c /\ c < f
            /\ Idx("update") = {u}
            /\ \A j \in Idx("open") \cup Idx("close") : ~(o < j /\ j < u)

(* C7: when langfuse is None no step of the program calls the tracing      *)
(* backend, and a call of a pipeline function still runs crew.kickoff()    *)
(* once and gives its result or failure to the caller.                      *)
C7_NoTracingWhenDisabled ==
    (langfuse = "None" /\ mainPc # "load") =>
        /\ \A i \in DOMAIN trace : trace[i].call = "kickoff"
        /\ spans = << >>
        /\ Done => /\ Cardinality(Idx("kickoff")) = 1
                   /\ \A i \in Idx("kickoff") : ret = PlainOutcome(trace[i])

C7_Witness ==
    /\ langfuse = "None"
    /\ Done
    /\ KickoffRaised
    /\ ret.kind = "raise"

(* C8: on a call that returns with tracing enabled, the text in the span's *)
(* output is the prefix of the result text of length min(800, length),     *)
(* 'length' is the full length, and the caller gets the untruncated result *)
(* of crew.kickoff().                                                       *)
C8_TruncatedPayload ==
    (fn \in Pipelines /\ pc = "returned" /\ langfuse # "None") =>
        \A i \in Idx("kickoff") :
            LET full == trace[i].val[1].raw
                o == spans[1].output[1]
                text == o[TextKey]
            IN /\ Len(text) = Min(TextCap, Len(full))
               /\ \A j \in 1..Len(text) : text[j] = full[j]
               /\ o.length = Len(full)
               /\ ret.kind = "return"
               /\ ret.val = trace[i].val
               /\ Len(ret.val[1].raw) = Len(full)

C8_Witness ==
    /\ fn \in Pipelines
    /\ pc = "returned"
    /\ langfuse # "None"
    /\ Len(spans) = 1
    /\ Len(ret.val[1].raw) > TextCap
    /\ Len(spans[1].output[1][TextKey]) = TextCap

(* C9: every call of research_and_write or quick_research calls            *)
(* crew.kickoff() exactly once, whether or not tracing is enabled and      *)
(* whatever kickoff and the tracing calls do.                               *)
C9_KickoffExactlyOnce ==
    Done => Cardinality(Idx("kickoff")) = 1

(* C10: main leaves its loop only on the choice "0", after flushing the    *)
(* tracing client if there is one; an exception raised by a pipeline       *)
(* function is caught and the loop goes back to the menu; an empty topic   *)
(* or question goes back to the menu without calling the pipeline; any     *)
(* other choice leaves the loop running.                                    *)
C10_LoopStep ==
    /\ (mainPc # "exited" /\ mainPc' = "exited") =>
          /\ choice' = << "0" >>
          /\ langfuse # "None" => trace' # << >> /\ trace'[Len(trace')].call = "flush"
    /\ (mainPc = "menu" /\ choice' # << "0" >>) =>
          mainPc' \in {"menu", "topic", "question", "call"}
    /\ (mainPc = "call" /\ pc = "raised") =>
          /\ mainPc' = "menu"
          /\ out' = "Failed"
    /\ (mainPc = "topic" /\ topic' = << >>) =>
          /\ mainPc' = "menu"
          /\ fn' = "none"
    /\ (mainPc = "question" /\ question' = << >>) =>
          /\ mainPc' = "menu"
          /\ fn' = "none"

====
